---- MODULE Spec2Model ----
(***************************************************************************)
(* Security governance core of pw-api-framework: the capability firewall   *)
(* and audit trail of utils/audit-logger.ts and the human-approval         *)
(* workflow of utils/approval-handler.ts.                                  *)
(*                                                                         *)
(* The program is single-threaded and asynchronous: every action below is  *)
(* one run-to-completion slice of a handler, from one await (or callback)  *)
(* to the next.  An fs.promises.appendFile is issued in one slice and      *)
(* settles, with success or with an I/O error, in a later one.             *)
(***************************************************************************)
EXTENDS Integers, Sequences, FiniteSets, TLC

(* ------------------------------ bounds --------------------------------- *)

\* governed calls (withAudit / withApproval) started in one behaviour
MaxCalls == 1

\* manual approve / reject calls started in one behaviour
MaxOps == 1

\* manual calls started while an earlier one awaits its append
MaxOverlap == 1

\* last value of the clock (Date.now(), in units of the approval timeout)
MaxClock == 2

\* how many clock units a due setTimeout callback may still be waiting for
\* the event loop
MaxTimerLag == 0

(* ----------------------------- universes ------------------------------- *)

Actions == {"createIssue", "readRepo"}

Environments == {"development", "production"}

Approvers == {"admin@example.com", "mallory@example.com"}

ToolName == "github"

User == "user@example.com"

\* absent optional fields (reason?, approver?) and absent numbers (duration?)
Undefined == "undefined"

NoNumber == -1

(* ------------------------------ state ---------------------------------- *)

VARIABLES
    capabilities,     \* AuditLogger.capabilities (CapabilityRule)
    config,           \* ApprovalHandler.config
    now,              \* Date.now()
    auditLog,         \* lines of mcp-audit-<date>.jsonl
    console,          \* entries echoed by AuditLogger.logToConsole
    reads,            \* what the reporting operations have returned
    approvalLog,      \* lines of approvals.jsonl
    requests,         \* the ApprovalRequest objects created so far, by id
    pendingRequests,  \* keys of ApprovalHandler.pendingRequests
    calls,            \* withAudit / withApproval invocations
    ops,              \* approve / reject invocations
    floating,         \* appends issued without await, not yet settled
    lost              \* lines whose append failed

vars == <<capabilities, config, now, auditLog, console, reads, approvalLog,
          requests, pendingRequests, calls, ops, floating, lost>>

(* --------------------------- string helpers ---------------------------- *)

Upper == <<"A","B","C","D","E","F","G","H","I","J","K","L","M",
           "N","O","P","Q","R","S","T","U","V","W","X","Y","Z">>

Lower == <<"a","b","c","d","e","f","g","h","i","j","k","l","m",
           "n","o","p","q","r","s","t","u","v","w","x","y","z">>

\* the characters of the strings the model passes to toLowerCase/includes
Chars(s) ==
    CASE s = "createIssue" -> <<"c","r","e","a","t","e","I","s","s","u","e">>
      [] s = "readRepo"    -> <<"r","e","a","d","R","e","p","o">>
      [] s = "delete"      -> <<"d","e","l","e","t","e">>
      [] s = "drop"        -> <<"d","r","o","p">>
      [] s = "destroy"     -> <<"d","e","s","t","r","o","y">>
      [] s = "remove_user" -> <<"r","e","m","o","v","e","_","u","s","e","r">>
      [] s = "grant_admin" -> <<"g","r","a","n","t","_","a","d","m","i","n">>
      [] s = "create"      -> <<"c","r","e","a","t","e">>
      [] s = "update"      -> <<"u","p","d","a","t","e">>
      [] s = "push"        -> <<"p","u","s","h">>
      [] s = "merge"       -> <<"m","e","r","g","e">>
      [] s = "deploy"      -> <<"d","e","p","l","o","y">>
      [] s = "write"       -> <<"w","r","i","t","e">>
      [] s = "modify"      -> <<"m","o","d","i","f","y">>
      [] s = "upload"      -> <<"u","p","l","o","a","d">>
      [] s = "publish"     -> <<"p","u","b","l","i","s","h">>
      [] s = "deleteRepo"  -> <<"d","e","l","e","t","e","R","e","p","o">>
      [] s = "updateFile"  -> <<"u","p","d","a","t","e","F","i","l","e">>
      [] s = "searchCode"  -> <<"s","e","a","r","c","h","C","o","d","e">>
      [] s = "pushCode"    -> <<"p","u","s","h","C","o","d","e">>
      [] s = "uploadFile"  -> <<"u","p","l","o","a","d","F","i","l","e">>
      [] s = "DropTable"   -> <<"D","r","o","p","T","a","b","l","e">>
      [] s = "publishUpdate" ->
            <<"p","u","b","l","i","s","h","U","p","d","a","t","e">>
      [] s = "grant_admin_and_update" ->
            <<"g","r","a","n","t","_","a","d","m","i","n","_","a","n","d","_",
              "u","p","d","a","t","e">>
      [] s = "yes"         -> <<"y","e","s">>
      [] s = "YES"         -> <<"Y","E","S">>
      [] s = "y"           -> <<"y">>
      [] s = "no"          -> <<"n","o">>
      [] s = ""            -> <<>>

\* String.prototype.toLowerCase, on character sequences
toLowerCase(cs) ==
    [i \in 1..Len(cs) |->
        IF \E k \in 1..Len(Upper) : Upper[k] = cs[i]
        THEN Lower[CHOOSE k \in 1..Len(Upper) : Upper[k] = cs[i]]
        ELSE cs[i]]

\* String.prototype.includes, on character sequences
includes(cs, sub) ==
    \E i \in 0..(Len(cs) - Len(sub)) :
        \A j \in 1..Len(sub) : cs[i + j] = sub[j]

(* ------------------------- capability firewall ------------------------- *)

Allowed == [allowed |-> TRUE, reason |-> Undefined]

Denied(reason) == [allowed |-> FALSE, reason |-> reason]

ReasonBlocked(action) ==
    "Action '" \o action \o "' is blocked by capability firewall"

ReasonEnvironment(environment) ==
    "Environment '" \o environment \o "' is not in allowed list"

ReasonApproval(action) ==
    "Action '" \o action \o "' requires human approval (not implemented)"

ReasonNotAllowed(action) ==
    "Action '" \o action \o "' is not in allowed actions list"

\* validateAction with the environment rule ahead of the block list
validateActionEnvironmentFirst(rules, action, environment) ==
    IF environment \notin rules.allowedEnvironments
    THEN Denied(ReasonEnvironment(environment))
    ELSE IF action \in rules.blockedActions
    THEN Denied(ReasonBlocked(action))
    ELSE IF action \in rules.requireApproval
    THEN Denied(ReasonApproval(action))
    ELSE IF rules.allowedActions # {} /\ action \notin rules.allowedActions
    THEN Denied(ReasonNotAllowed(action))
    ELSE Allowed

\* validateAction with the allow-list rule ahead of the approval rule
validateActionAllowListFirst(rules, action, environment) ==
    IF action \in rules.blockedActions
    THEN Denied(ReasonBlocked(action))
    ELSE IF environment \notin rules.allowedEnvironments
    THEN Denied(ReasonEnvironment(environment))
    ELSE IF rules.allowedActions # {} /\ action \notin rules.allowedActions
    THEN Denied(ReasonNotAllowed(action))
    ELSE IF action \in rules.requireApproval
    THEN Denied(ReasonApproval(action))
    ELSE Allowed

\* validateAction without the length > 0 guard on the allow list
validateActionDefaultDeny(rules, action, environment) ==
    IF action \in rules.blockedActions
    THEN Denied(ReasonBlocked(action))
    ELSE IF environment \notin rules.allowedEnvironments
    THEN Denied(ReasonEnvironment(environment))
    ELSE IF action \in rules.requireApproval
    THEN Denied(ReasonApproval(action))
    ELSE IF action \notin rules.allowedActions
    THEN Denied(ReasonNotAllowed(action))
    ELSE Allowed

\* AuditLogger.validateAction over a rule set
validateAction(rules, action, environment) ==
    IF action \in rules.blockedActions
    THEN Denied(ReasonBlocked(action))
    ELSE IF environment \notin rules.allowedEnvironments
    THEN Denied(ReasonEnvironment(environment))
    ELSE IF action \in rules.requireApproval
    THEN Denied(ReasonApproval(action))
    ELSE IF rules.allowedActions # {} /\ action \notin rules.allowedActions
    THEN Denied(ReasonNotAllowed(action))
    ELSE Allowed

(* --------------------------- risk classifier --------------------------- *)

criticalActions == {"delete", "drop", "destroy", "remove_user", "grant_admin"}

highActions == {"create", "update", "push", "merge", "deploy"}

mediumActions == {"write", "modify", "upload", "publish"}

\* assessRiskLevel with the high keywords tried before the critical ones
assessRiskLevelHighFirst(action) ==
    LET actionLower == toLowerCase(Chars(action))
    IN  IF \E a \in highActions : includes(actionLower, Chars(a))
        THEN "high"
        ELSE IF \E a \in criticalActions : includes(actionLower, Chars(a))
        THEN "critical"
        ELSE IF \E a \in mediumActions : includes(actionLower, Chars(a))
        THEN "medium"
        ELSE "low"

\* assessRiskLevel(action): the first tier, from critical down, one of whose
\* keywords the lower-cased action contains
assessRiskLevel(action) ==
    LET actionLower == toLowerCase(Chars(action))
    IN  IF \E a \in criticalActions : includes(actionLower, Chars(a))
        THEN "critical"
        ELSE IF \E a \in highActions : includes(actionLower, Chars(a))
        THEN "high"
        ELSE IF \E a \in mediumActions : includes(actionLower, Chars(a))
        THEN "medium"
        ELSE "low"

(* ------------------------------ audit log ------------------------------ *)

SessionId == "session-1"

IOError == "EIO: appendFile failed"

\* what an executor throws: an Error with this message ...
ExecutorError == "executor failed"

\* ... or a value that is not an Error (a rejection with a plain string)
ExecutorRejection == "executor rejected with a string"

Thrown == {ExecutorError, ExecutorRejection}

\* error instanceof Error: every error of the module itself is an Error
instanceofError(error) == error # ExecutorRejection

\* error instanceof Error ? error.message : 'Unknown error'
ReasonOf(error) == IF instanceofError(error) THEN error ELSE "Unknown error"

NoLine == [kind |-> "none"]

\* a line whose appendFile rejected, with the operation that issued it
Lost(line, by, n) == [line |-> line, by |-> by, n |-> n]

\* the fullEntry of AuditLogger.logInvocation: the entry stamped with the
\* current time and the session id
AuditEntry(t, action, environment, riskLevel, result, reason, duration) ==
    [kind        |-> "audit",
     timestamp   |-> t,
     sessionId   |-> SessionId,
     user        |-> User,
     environment |-> environment,
     toolName    |-> ToolName,
     action      |-> action,
     result      |-> result,
     reason      |-> reason,
     duration    |-> duration,
     riskLevel   |-> riskLevel]

(* ------------------------------- calls --------------------------------- *)

NoValidation == [allowed |-> FALSE, reason |-> "not validated"]

NoApproval == [approved |-> FALSE, reason |-> "not requested", approver |-> Undefined]

\* a withAudit / withApproval invocation in its first slice.  result is
\* requestApproval's local `result`, approval what withApproval received from
\* it; wrappedRuns counts the invocations of withApproval's executor,
\* executorRuns those of the action itself; records are the audit lines this
\* invocation has got into the file, outcome how its executor ended and
\* thrown what it threw
NewCall(kind, action, environment, t) ==
    [kind         |-> kind,
     action       |-> action,
     environment  |-> environment,
     pc           |-> "start",
     startTime    |-> t,
     riskLevel    |-> "low",
     validation   |-> NoValidation,
     request      |-> 0,
     timer        |-> NoNumber,
     result       |-> NoApproval,
     approval     |-> NoApproval,
     wrappedRuns  |-> 0,
     executorRuns |-> 0,
     outcome      |-> "none",
     thrown       |-> Undefined,
     error        |-> Undefined,
     line         |-> NoLine,
     records      |-> <<>>]

\* withAudit that validates but invokes the executor whatever the verdict
EnterWithAuditUngated(c, t) ==
    [c EXCEPT !.startTime = t,
              !.riskLevel = assessRiskLevel(c.action),
              !.validation = validateAction(capabilities, c.action, c.environment),
              !.pc = "executing",
              !.executorRuns = @ + 1]

\* withAudit up to its first await: validate, then either issue the append of
\* the 'blocked' record or invoke the executor
EnterWithAudit(c, t) ==
    LET v == validateAction(capabilities, c.action, c.environment)
        riskLevel == assessRiskLevel(c.action)
    IN  IF ~v.allowed
        THEN [c EXCEPT !.startTime = t,
                       !.riskLevel = riskLevel,
                       !.validation = v,
                       !.pc = "appendBlocked",
                       !.line = AuditEntry(t, c.action, c.environment, riskLevel,
                                           "blocked", v.reason, NoNumber)]
        ELSE [c EXCEPT !.startTime = t,
                       !.riskLevel = riskLevel,
                       !.validation = v,
                       !.pc = "executing",
                       !.executorRuns = @ + 1]

\* a caller invokes withAudit(logger, tool, action, params, user, env, executor)
WithAudit(action, environment) ==
    /\ Len(calls) < MaxCalls
    /\ calls' = Append(calls,
                    EnterWithAudit(NewCall("withAudit", action, environment, now), now))
    /\ UNCHANGED <<capabilities, config, now, auditLog, console, reads,
                   approvalLog, requests,
                   pendingRequests, ops, floating, lost>>

AuditKinds == {"withAudit", "governed"}

\* the executor's promise resolves: withAudit issues the 'success' append
ExecutorReturnsAudit(i) ==
    /\ calls[i].kind \in AuditKinds
    /\ calls[i].pc = "executing"
    /\ calls' = [calls EXCEPT ![i].pc = "appendSuccess",
                              ![i].outcome = "returned",
                              ![i].line = AuditEntry(now, calls[i].action,
                                              calls[i].environment,
                                              calls[i].riskLevel, "success",
                                              Undefined, now - calls[i].startTime)]
    /\ UNCHANGED <<capabilities, config, now, auditLog, console, reads,
                   approvalLog, requests,
                   pendingRequests, ops, floating, lost>>

\* a catch block that wraps the error it re-raises
CatchAuditWrapping(c, t, error) ==
    [c EXCEPT !.pc = "appendFailure",
              !.error = "Action failed: " \o error,
              !.line = AuditEntry(t, c.action, c.environment, c.riskLevel, "failure",
                                  ReasonOf(error), t - c.startTime)]

\* the catch block of withAudit: issue the 'failure' append, keep the error
CatchAudit(c, t, error) ==
    [c EXCEPT !.pc = "appendFailure",
              !.error = error,
              !.line = AuditEntry(t, c.action, c.environment, c.riskLevel, "failure",
                                  ReasonOf(error), t - c.startTime)]

\* the executor's promise rejects
ExecutorThrowsAudit(i, error) ==
    /\ calls[i].kind \in AuditKinds
    /\ calls[i].pc = "executing"
    /\ calls' = [calls EXCEPT ![i] = CatchAudit([calls[i] EXCEPT !.outcome = "threw",
                                                                   !.thrown = error],
                                                 now, error)]
    /\ UNCHANGED <<capabilities, config, now, auditLog, console, reads,
                   approvalLog, requests,
                   pendingRequests, ops, floating, lost>>

\* what withAudit does when the awaited logInvocation settles
AfterAuditAppend(c, ok, t) ==
    CASE c.pc = "appendBlocked" ->
            [c EXCEPT !.pc = "thrown",
                      !.line = NoLine,
                      !.error = IF ok THEN "Action blocked: " \o c.validation.reason
                                ELSE IOError]
      [] c.pc = "appendSuccess" ->
            IF ok THEN [c EXCEPT !.pc = "returned", !.line = NoLine]
            ELSE CatchAudit(c, t, IOError)
      [] c.pc = "appendFailure" ->
            [c EXCEPT !.pc = "thrown",
                      !.line = NoLine,
                      !.error = IF ok THEN c.error ELSE IOError]

AuditAppendPcs == {"appendBlocked", "appendSuccess", "appendFailure"}

\* logInvocation with writeFile in the place of appendFile
AuditAppendSettlesOverwriting(i, ok) ==
    /\ calls[i].pc \in AuditAppendPcs
    /\ auditLog' = IF ok THEN <<calls[i].line>> ELSE auditLog
    /\ console' = IF ok THEN Append(console, calls[i].line) ELSE console
    /\ lost' = IF ok THEN lost ELSE lost \cup {Lost(calls[i].line, "call", i)}
    /\ calls' = [calls EXCEPT ![i] = AfterAuditAppend(
                        [calls[i] EXCEPT !.records =
                            IF ok THEN Append(@, calls[i].line) ELSE @], ok, now)]
    /\ UNCHANGED <<capabilities, config, now, reads, approvalLog, requests,
                   pendingRequests, ops, floating>>

\* fs.promises.appendFile of logInvocation settles: the line is in the file
\* iff it succeeded, and logToConsole echoes the entry only after the awaited
\* append has succeeded
AuditAppendSettles(i, ok) ==
    /\ calls[i].pc \in AuditAppendPcs
    /\ auditLog' = IF ok THEN Append(auditLog, calls[i].line) ELSE auditLog
    /\ console' = IF ok THEN Append(console, calls[i].line) ELSE console
    /\ lost' = IF ok THEN lost ELSE lost \cup {Lost(calls[i].line, "call", i)}
    /\ calls' = [calls EXCEPT ![i] = AfterAuditAppend(
                        [calls[i] EXCEPT !.records =
                            IF ok THEN Append(@, calls[i].line) ELSE @], ok, now)]
    /\ UNCHANGED <<capabilities, config, now, reads, approvalLog, requests,
                   pendingRequests, ops, floating>>

Finished == {"returned", "thrown"}

\* the clock is read only by running invocations and against the entries of
\* the pending map: the model lets it advance while there is one
Busy ==
    \/ \E i \in 1..Len(calls) : calls[i].pc \notin Finished
    \/ \E k \in 1..Len(ops) : ops[k].pc \notin Finished
    \/ pendingRequests # {}

(* ----------------------- approval configuration ------------------------ *)

Interfaces == {"cli", "web", "api", "slack"}

\* the longest configured timeout, in clock units
MaxTimeout == 1

DefaultConfig ==
    [enabled |-> TRUE, interface |-> "cli", timeout |-> 1,
     allowedApprovers |-> {}, autoApproveEnvironments |-> {}]

\* the configurations a handler is constructed with: every setting of the
\* prompt interface, a disabled handler with and without auto-approval, and
\* the fallback and unknown interfaces over the default
ApprovalConfigs ==
    {c \in [enabled                 : BOOLEAN,
            interface               : Interfaces,
            timeout                 : 1..MaxTimeout,
            allowedApprovers        : {{}, {"admin@example.com"}},
            autoApproveEnvironments : {{}, {"development"}}] :
        /\ ~c.enabled => /\ c.interface = DefaultConfig.interface
                          /\ c.allowedApprovers = DefaultConfig.allowedApprovers
        /\ (c.enabled /\ c.interface # "cli")
            => /\ c.allowedApprovers = DefaultConfig.allowedApprovers
               /\ c.autoApproveEnvironments = DefaultConfig.autoApproveEnvironments}

(* -------------------------- approval requests -------------------------- *)

RiskLevels == {"high", "critical"}

RequestReason == "Creating production bug report"

\* the ApprovalRequest object literal of requestApproval
NewRequest(id, t, environment, action, riskLevel, status, approver, approvalTimestamp) ==
    [kind              |-> "approval",
     id                |-> id,
     timestamp         |-> t,
     user              |-> User,
     environment       |-> environment,
     toolName          |-> ToolName,
     action            |-> action,
     riskLevel         |-> riskLevel,
     reason            |-> RequestReason,
     status            |-> status,
     approver          |-> approver,
     approvalTimestamp |-> approvalTimestamp,
     expiresAt         |-> t + config.timeout]

Result(approved, reason, approver) ==
    [approved |-> approved, reason |-> reason, approver |-> approver]

\* a disabled handler that refuses
ResultDisabledRefusing == Result(FALSE, "Approval handler disabled", Undefined)

\* line 56
ResultDisabled == Result(TRUE, "Approval handler disabled", Undefined)

ResultAuto == Result(TRUE, "Auto-approved for environment", "auto-approved")

ResultInvalidInterface == Result(FALSE, "Invalid approval interface configured", Undefined)

ResultTimedOut == Result(FALSE, "Approval request timed out", Undefined)

ResultRejectedByUser == Result(FALSE, "Rejected by user", Undefined)

ResultNotAllowed == Result(FALSE, "User not in allowed approvers list", Undefined)

ResultApproved(approver) == Result(TRUE, Undefined, approver)

(* ---------------------------- withApproval ----------------------------- *)

\* the message of the error withApproval throws on a refusal
RejectionMessage(result) ==
    "Action rejected: " \o
        (IF result.reason = Undefined THEN "No approval received" ELSE result.reason)

\* withApproval without the `if (!approval.approved) throw`
AfterApprovalUnchecked(c, result, t) ==
    LET d == [c EXCEPT !.approval = result, !.line = NoLine, !.timer = NoNumber]
    IN  IF d.kind = "governed"
        THEN EnterWithAudit([d EXCEPT !.wrappedRuns = @ + 1], t)
        ELSE [d EXCEPT !.pc = "executing",
                       !.wrappedRuns = @ + 1,
                       !.executorRuns = @ + 1]

\* withApproval after requestApproval has returned `result`: throw, or invoke
\* the executor (which, in the documented composition, is a withAudit call)
AfterApproval(c, result, t) ==
    LET d == [c EXCEPT !.approval = result, !.line = NoLine, !.timer = NoNumber]
    IN  IF ~result.approved
        THEN [d EXCEPT !.pc = "thrown", !.error = RejectionMessage(result)]
        ELSE IF d.kind = "governed"
        THEN EnterWithAudit([d EXCEPT !.wrappedRuns = @ + 1], t)
        ELSE [d EXCEPT !.pc = "executing",
                       !.wrappedRuns = @ + 1,
                       !.executorRuns = @ + 1]

\* lines 113-119 of requestApproval: write the decision into the request
\* object and issue the append of its snapshot
Decide(r, result, t) ==
    [r EXCEPT !.status = IF result.approved THEN "approved" ELSE "rejected",
              !.approver = result.approver,
              !.approvalTimestamp = t]

PromptInterfaces == {"cli", "web", "api"}

ApprovalKinds == {"withApproval", "governed"}

\* a caller invokes withApproval(handler, ..., executor); the slice runs
\* requestApproval up to its first await
WithApproval(kind, action, environment, riskLevel) ==
    LET c  == NewCall(kind, action, environment, now)
        id == Len(requests) + 1
    IN
    /\ Len(calls) < MaxCalls
    /\ IF ~config.enabled
       THEN /\ calls' = Append(calls, AfterApproval(c, ResultDisabled, now))
            /\ UNCHANGED <<requests, pendingRequests>>
       ELSE IF environment \in config.autoApproveEnvironments
       THEN LET r == NewRequest(id, now, environment, action, riskLevel,
                                "approved", "auto-approved", now)
            IN  /\ requests' = Append(requests, r)
                /\ calls' = Append(calls, [c EXCEPT !.pc = "appendAuto",
                                                    !.request = id,
                                                    !.line = r])
                /\ UNCHANGED pendingRequests
       ELSE LET r == NewRequest(id, now, environment, action, riskLevel,
                                "pending", Undefined, NoNumber)
            IN  IF config.interface \in PromptInterfaces
                THEN /\ requests' = Append(requests, r)
                     /\ pendingRequests' = pendingRequests \cup {id}
                     /\ calls' = Append(calls, [c EXCEPT !.pc = "question1",
                                                         !.request = id,
                                                         !.timer = now + config.timeout])
                ELSE LET q == Decide(r, ResultInvalidInterface, now)
                     IN  /\ requests' = Append(requests, q)
                         /\ pendingRequests' = pendingRequests \cup {id}
                         /\ calls' = Append(calls, [c EXCEPT !.pc = "appendDecision",
                                                             !.request = id,
                                                             !.result = ResultInvalidInterface,
                                                             !.line = q])
    /\ UNCHANGED <<capabilities, config, now, auditLog, console, reads,
                   approvalLog, ops,
                   floating, lost>>

\* the promise of requestApprovalCLI resolves with `result`; requestApproval
\* resumes in the same slice (lines 113-119)
Resolve(i, result) ==
    LET id == calls[i].request
        q  == Decide(requests[id], result, now)
    IN  /\ requests' = [requests EXCEPT ![id] = q]
        /\ calls' = [calls EXCEPT ![i].pc = "appendDecision",
                                  ![i].result = result,
                                  ![i].timer = NoNumber,
                                  ![i].line = q]
        /\ UNCHANGED <<capabilities, config, now, auditLog, console, reads,
                   approvalLog,
                       pendingRequests, ops, floating, lost>>

\* the setTimeout callback of requestApprovalCLI runs
TimerFires(i) ==
    /\ calls[i].pc = "question1"
    /\ calls[i].timer # NoNumber
    /\ now >= calls[i].timer
    /\ Resolve(i, ResultTimedOut)

Answers == {"yes", "YES", "y", "no", ""}

IsYes(answer) ==
    \/ toLowerCase(Chars(answer)) = Chars("yes")
    \/ toLowerCase(Chars(answer)) = Chars("y")

\* the human answers 'Approve this action? (yes/no)': the timer is cleared
AnswerFirstQuestion(i, answer) ==
    /\ calls[i].pc = "question1"
    /\ IF IsYes(answer)
       THEN /\ calls' = [calls EXCEPT ![i].pc = "question2", ![i].timer = NoNumber]
            /\ UNCHANGED <<capabilities, config, now, auditLog, console, reads,
                   approvalLog, requests,
                           pendingRequests, ops, floating, lost>>
       ELSE Resolve(i, ResultRejectedByUser)

ApproverAllowed(approverEmail) ==
    ~(config.allowedApprovers # {} /\ approverEmail \notin config.allowedApprovers)

\* the human answers 'Enter your email for audit trail'
AnswerSecondQuestion(i, approverEmail) ==
    /\ calls[i].pc = "question2"
    /\ Resolve(i, IF ApproverAllowed(approverEmail)
                  THEN ResultApproved(approverEmail)
                  ELSE ResultNotAllowed)

ApprovalAppendPcs == {"appendAuto", "appendDecision"}

\* requestApproval returning its local result on the auto-approval path too
AfterApprovalAppendNoAutoResult(c, ok, t) ==
    IF ~ok
    THEN [c EXCEPT !.pc = "thrown", !.error = IOError, !.line = NoLine]
    ELSE AfterApproval(c, c.result, t)

\* requestApproval after its awaited logApproval settled, and withApproval
\* after requestApproval
AfterApprovalAppend(c, ok, t) ==
    IF ~ok
    THEN [c EXCEPT !.pc = "thrown", !.error = IOError, !.line = NoLine]
    ELSE IF c.pc = "appendAuto"
    THEN AfterApproval(c, ResultAuto, t)
    ELSE AfterApproval(c, c.result, t)

\* requestApproval without its pendingRequests.delete
ApprovalAppendSettlesNoDelete(i, ok) ==
    /\ calls[i].pc \in ApprovalAppendPcs
    /\ approvalLog' = IF ok THEN Append(approvalLog, calls[i].line) ELSE approvalLog
    /\ lost' = IF ok THEN lost ELSE lost \cup {Lost(calls[i].line, "call", i)}
    /\ calls' = [calls EXCEPT ![i] = AfterApprovalAppend(calls[i], ok, now)]
    /\ UNCHANGED <<capabilities, config, now, auditLog, console, reads,
                   requests, ops,
                   floating, pendingRequests>>

\* fs.promises.appendFile of an awaited logApproval in requestApproval settles
ApprovalAppendSettles(i, ok) ==
    /\ calls[i].pc \in ApprovalAppendPcs
    /\ approvalLog' = IF ok THEN Append(approvalLog, calls[i].line) ELSE approvalLog
    /\ lost' = IF ok THEN lost ELSE lost \cup {Lost(calls[i].line, "call", i)}
    /\ pendingRequests' = IF ok /\ calls[i].pc = "appendDecision"
                          THEN pendingRequests \ {calls[i].request}
                          ELSE pendingRequests
    /\ calls' = [calls EXCEPT ![i] = AfterApprovalAppend(calls[i], ok, now)]
    /\ UNCHANGED <<capabilities, config, now, auditLog, console, reads,
                   requests, ops,
                   floating>>

\* the executor handed to withApproval alone returns
ExecutorReturns(i) ==
    /\ calls[i].kind = "withApproval"
    /\ calls[i].pc = "executing"
    /\ calls' = [calls EXCEPT ![i].pc = "returned", ![i].outcome = "returned"]
    /\ UNCHANGED <<capabilities, config, now, auditLog, console, reads,
                   approvalLog, requests,
                   pendingRequests, ops, floating, lost>>

\* the executor handed to withApproval alone throws
ExecutorThrows(i, error) ==
    /\ calls[i].kind = "withApproval"
    /\ calls[i].pc = "executing"
    /\ calls' = [calls EXCEPT ![i].pc = "thrown",
                              ![i].outcome = "threw",
                              ![i].thrown = error,
                              ![i].error = error]
    /\ UNCHANGED <<capabilities, config, now, auditLog, console, reads,
                   approvalLog, requests,
                   pendingRequests, ops, floating, lost>>

(* ------------------- manual resolution and expiry ---------------------- *)

\* an approve / reject invocation; path is the branch it took, result what it
\* returned
NewOp(kind, id) ==
    [kind |-> kind, request |-> id, path |-> "unknown",
     pc |-> "start", result |-> FALSE, line |-> NoLine]

Expired(r, t) == r.expiresAt < t

\* ApprovalHandler.approve(requestId, approver) up to its first await
ApproveCall(id, approver) ==
    /\ IF id \notin pendingRequests
       THEN /\ ops' = Append(ops, [NewOp("approve", id) EXCEPT !.pc = "returned"])
            /\ UNCHANGED requests
       ELSE IF Expired(requests[id], now)
       THEN LET q == [requests[id] EXCEPT !.status = "expired"]
            IN  /\ requests' = [requests EXCEPT ![id] = q]
                /\ ops' = Append(ops, [NewOp("approve", id) EXCEPT
                                          !.pc = "appendExpired", !.path = "expired",
                                          !.line = q])
       ELSE LET q == [requests[id] EXCEPT !.status = "approved",
                                          !.approver = approver,
                                          !.approvalTimestamp = now]
            IN  /\ requests' = [requests EXCEPT ![id] = q]
                /\ ops' = Append(ops, [NewOp("approve", id) EXCEPT
                                          !.pc = "appendResolved", !.path = "resolved",
                                          !.line = q])
    /\ UNCHANGED <<capabilities, config, now, auditLog, console, reads,
                   approvalLog,
                   pendingRequests, calls, floating, lost>>

\* approve without the expiry check of lines 240-245
ApproveNoExpiryCheck(id, approver) ==
    /\ Len(ops) < MaxOps
    /\ IF id \notin pendingRequests
       THEN /\ ops' = Append(ops, [NewOp("approve", id) EXCEPT !.pc = "returned"])
            /\ UNCHANGED requests
       ELSE LET q == [requests[id] EXCEPT !.status = "approved",
                                          !.approver = approver,
                                          !.approvalTimestamp = now]
            IN  /\ requests' = [requests EXCEPT ![id] = q]
                /\ ops' = Append(ops, [NewOp("approve", id) EXCEPT
                                          !.pc = "appendResolved", !.path = "resolved",
                                          !.line = q])
    /\ UNCHANGED <<capabilities, config, now, auditLog, console, reads,
                   approvalLog,
                   pendingRequests, calls, floating, lost>>

\* approve is called, at most MaxOps manual calls in a behaviour
Approve(id, approver) ==
    /\ Len(ops) < MaxOps
    /\ ApproveCall(id, approver)

\* who resolves requests through approve / reject
ManualApprovers == {"mallory@example.com"}

\* the ids handed to approve / reject: those generated so far, or an unknown
\* one when there is none yet
RequestIds == 1..(IF requests = <<>> THEN 1 ELSE Len(requests))

RejectReasons == {Undefined, "Rejected by reviewer"}

\* ApprovalHandler.reject(requestId, approver, reason?) up to its first await
RejectCall(id, approver, reason) ==
    /\ IF id \notin pendingRequests
       THEN /\ ops' = Append(ops, [NewOp("reject", id) EXCEPT !.pc = "returned"])
            /\ UNCHANGED requests
       ELSE LET q == [requests[id] EXCEPT
                         !.status = "rejected",
                         !.approver = approver,
                         !.approvalTimestamp = now,
                         !.reason = IF reason # Undefined THEN reason ELSE @]
            IN  /\ requests' = [requests EXCEPT ![id] = q]
                /\ ops' = Append(ops, [NewOp("reject", id) EXCEPT
                                          !.pc = "appendResolved", !.path = "resolved",
                                          !.line = q])
    /\ UNCHANGED <<capabilities, config, now, auditLog, console, reads,
                   approvalLog,
                   pendingRequests, calls, floating, lost>>

\* reject is called, at most MaxOps manual calls in a behaviour
Reject(id, approver, reason) ==
    /\ Len(ops) < MaxOps
    /\ RejectCall(id, approver, reason)

OpAppendPcs == {"appendExpired", "appendResolved"}

\* an approve / reject of request id is suspended at its logApproval
Overlapping(id) ==
    \E k \in 1..Len(ops) : ops[k].request = id /\ ops[k].pc \in OpAppendPcs

\* approve is called while an earlier approve / reject of the same request
\* awaits its append
ApproveMeanwhile(id, approver) ==
    /\ Len(ops) < MaxOps + MaxOverlap
    /\ Overlapping(id)
    /\ ApproveCall(id, approver)

\* reject is called while an earlier approve / reject of the same request
\* awaits its append
RejectMeanwhile(id, approver, reason) ==
    /\ Len(ops) < MaxOps + MaxOverlap
    /\ Overlapping(id)
    /\ RejectCall(id, approver, reason)

\* the awaited logApproval of approve / reject settles
OpAppendSettles(k, ok) ==
    /\ ops[k].pc \in OpAppendPcs
    /\ approvalLog' = IF ok THEN Append(approvalLog, ops[k].line) ELSE approvalLog
    /\ lost' = IF ok THEN lost ELSE lost \cup {Lost(ops[k].line, "op", k)}
    /\ pendingRequests' = IF ok THEN pendingRequests \ {ops[k].request}
                          ELSE pendingRequests
    /\ ops' = [ops EXCEPT ![k].pc = IF ok THEN "returned" ELSE "thrown",
                          ![k].result = ok /\ ops[k].pc = "appendResolved",
                          ![k].line = NoLine]
    /\ UNCHANGED <<capabilities, config, now, auditLog, console, reads,
                   requests, calls,
                   floating>>

\* the ids of a set, in increasing order (Map iteration is insertion order)
RECURSIVE Ordered(_)
Ordered(S) ==
    IF S = {} THEN <<>>
    ELSE LET m == CHOOSE x \in S : \A y \in S : x <= y
         IN  <<m>> \o Ordered(S \ {m})

\* the entries of the pending map whose expiresAt has passed at time t
Gone(t) == {id \in pendingRequests : Expired(requests[id], t)}

\* what ApprovalHandler.getPendingRequests() returns at time t: the request
\* objects it leaves in the map
getPendingRequests(t) == {requests[id] : id \in pendingRequests \ Gone(t)}

\* ApprovalHandler.getPendingRequests() when some entry has expired (with none
\* it returns getPendingRequests(now) and changes nothing): the sweep marks every request past
\* its expiresAt expired, issues its append without awaiting it, and removes
\* it; the others are returned
GetPendingRequests ==
    LET gone  == Gone(now)
        swept == [id \in 1..Len(requests) |->
                     IF id \in gone THEN [requests[id] EXCEPT !.status = "expired"]
                     ELSE requests[id]]
        order == Ordered(gone)
    IN  /\ gone # {}
        /\ requests' = swept
        /\ floating' = floating \o [n \in 1..Len(order) |-> swept[order[n]]]
        /\ pendingRequests' = pendingRequests \ gone
        /\ UNCHANGED <<capabilities, config, now, auditLog, console, reads,
                   approvalLog, calls,
                       ops, lost>>

Remove(seq, k) == [n \in 1..(Len(seq) - 1) |-> IF n < k THEN seq[n] ELSE seq[n + 1]]

\* an append issued by the sweep settles; nobody awaits it
FloatingAppendSettles(k, ok) ==
    /\ k \in 1..Len(floating)
    /\ approvalLog' = IF ok THEN Append(approvalLog, floating[k]) ELSE approvalLog
    /\ lost' = IF ok THEN lost ELSE lost \cup {Lost(floating[k], "sweep", 0)}
    /\ floating' = Remove(floating, k)
    /\ UNCHANGED <<capabilities, config, now, auditLog, console, reads,
                   requests,
                   pendingRequests, calls, ops>>

\* time passes; a due timer callback runs at most MaxTimerLag late
Tick ==
    /\ now < MaxClock
    /\ Busy
    /\ \A i \in 1..Len(calls) :
          (calls[i].pc = "question1" /\ calls[i].timer # NoNumber)
              => now < calls[i].timer + MaxTimerLag
    /\ now' = now + 1
    /\ UNCHANGED <<capabilities, config, auditLog, console, reads,
                   approvalLog, requests,
                   pendingRequests, calls, ops, floating, lost>>

(* --------------- specification of the approval handler ----------------- *)

\* the capability rules of the repository's documentation and tests
DocumentedCapabilities ==
    [allowedActions      |-> {"readRepo", "searchCode", "listIssues", "getFile"},
     blockedActions      |-> {"deleteRepo", "deleteFile", "pushCode", "mergePull"},
     requireApproval     |-> {"createIssue", "commentPull"},
     allowedEnvironments |-> {"development", "test", "staging"}]

Init ==
    /\ capabilities = DocumentedCapabilities
    /\ config \in ApprovalConfigs
    /\ now = 0
    /\ auditLog = <<>>
    /\ console = <<>>
    /\ reads = <<>>
    /\ approvalLog = <<>>
    /\ requests = <<>>
    /\ pendingRequests = {}
    /\ calls = <<>>
    /\ ops = <<>>
    /\ floating = <<>>
    /\ lost = {}

Next ==
    \/ \E a \in Actions, e \in Environments, r \in RiskLevels :
          WithApproval("withApproval", a, e, r)
    \/ \E i \in 1..Len(calls) : TimerFires(i)
    \/ \E i \in 1..Len(calls), answer \in Answers : AnswerFirstQuestion(i, answer)
    \/ \E i \in 1..Len(calls), email \in Approvers : AnswerSecondQuestion(i, email)
    \/ \E i \in 1..Len(calls), ok \in BOOLEAN : ApprovalAppendSettles(i, ok)
    \/ \E i \in 1..Len(calls) : ExecutorReturns(i)
    \/ \E i \in 1..Len(calls), error \in Thrown : ExecutorThrows(i, error)
    \/ \E id \in RequestIds, who \in ManualApprovers : Approve(id, who)
    \/ \E id \in RequestIds, who \in ManualApprovers, why \in RejectReasons :
          Reject(id, who, why)
    \/ \E k \in 1..Len(ops), ok \in BOOLEAN : OpAppendSettles(k, ok)
    \/ GetPendingRequests
    \/ \E k \in 1..Len(floating), ok \in BOOLEAN : FloatingAppendSettles(k, ok)
    \/ Tick

Spec == Init /\ [][Next]_vars

(* ---- specification of the documented composition: withApproval around ---- *)
(* ---- withAudit (Example 3 of the security guide)                      ---- *)

NextGoverned ==
    \/ \E a \in Actions, e \in Environments, r \in RiskLevels :
          WithApproval("governed", a, e, r)
    \/ \E i \in 1..Len(calls) : TimerFires(i)
    \/ \E i \in 1..Len(calls), answer \in Answers : AnswerFirstQuestion(i, answer)
    \/ \E i \in 1..Len(calls), email \in Approvers : AnswerSecondQuestion(i, email)
    \/ \E i \in 1..Len(calls), ok \in BOOLEAN : ApprovalAppendSettles(i, ok)
    \/ \E i \in 1..Len(calls) : ExecutorReturnsAudit(i)
    \/ \E i \in 1..Len(calls), error \in Thrown : ExecutorThrowsAudit(i, error)
    \/ \E i \in 1..Len(calls), ok \in BOOLEAN : AuditAppendSettles(i, ok)
    \/ GetPendingRequests
    \/ \E k \in 1..Len(floating), ok \in BOOLEAN : FloatingAppendSettles(k, ok)
    \/ Tick

SpecGoverned == Init /\ [][NextGoverned]_vars

(* ------- specification of overlapping manual approve / reject --------- *)

InitManual ==
    /\ capabilities = DocumentedCapabilities
    /\ config = DefaultConfig
    /\ now = 0
    /\ auditLog = <<>>
    /\ console = <<>>
    /\ reads = <<>>
    /\ approvalLog = <<>>
    /\ requests = <<>>
    /\ pendingRequests = {}
    /\ calls = <<>>
    /\ ops = <<>>
    /\ floating = <<>>
    /\ lost = {}

NextManual ==
    \/ \E a \in Actions, e \in Environments, r \in RiskLevels :
          WithApproval("withApproval", a, e, r)
    \/ \E i \in 1..Len(calls) : TimerFires(i)
    \/ \E i \in 1..Len(calls), answer \in Answers : AnswerFirstQuestion(i, answer)
    \/ \E i \in 1..Len(calls), email \in Approvers : AnswerSecondQuestion(i, email)
    \/ \E i \in 1..Len(calls), ok \in BOOLEAN : ApprovalAppendSettles(i, ok)
    \/ \E i \in 1..Len(calls) : ExecutorReturns(i)
    \/ \E i \in 1..Len(calls), error \in Thrown : ExecutorThrows(i, error)
    \/ \E id \in RequestIds, who \in ManualApprovers : Approve(id, who)
    \/ \E id \in RequestIds, who \in ManualApprovers, why \in RejectReasons :
          Reject(id, who, why)
    \/ \E k \in 1..Len(ops), ok \in BOOLEAN : OpAppendSettles(k, ok)
    \/ GetPendingRequests
    \/ \E k \in 1..Len(floating), ok \in BOOLEAN : FloatingAppendSettles(k, ok)
    \/ Tick
    \/ \E id \in RequestIds, who \in ManualApprovers : ApproveMeanwhile(id, who)
    \/ \E id \in RequestIds, who \in ManualApprovers, why \in RejectReasons :
          RejectMeanwhile(id, who, why)

SpecManual == InitManual /\ [][NextManual]_vars

(* ------------------ specification of the audit logger ------------------ *)

CapabilityRules ==
    [allowedActions      : SUBSET Actions,
     blockedActions      : SUBSET Actions,
     requireApproval     : SUBSET Actions,
     allowedEnvironments : SUBSET Environments]

InitAudit ==
    /\ capabilities \in CapabilityRules
    /\ config = DefaultConfig
    /\ now = 0
    /\ auditLog = <<>>
    /\ console = <<>>
    /\ reads = <<>>
    /\ approvalLog = <<>>
    /\ requests = <<>>
    /\ pendingRequests = {}
    /\ calls = <<>>
    /\ ops = <<>>
    /\ floating = <<>>
    /\ lost = {}

NextAudit ==
    \/ \E a \in Actions, e \in Environments : WithAudit(a, e)
    \/ \E i \in 1..Len(calls) : ExecutorReturnsAudit(i)
    \/ \E i \in 1..Len(calls), error \in Thrown : ExecutorThrowsAudit(i, error)
    \/ \E i \in 1..Len(calls), ok \in BOOLEAN : AuditAppendSettles(i, ok)
    \/ Tick

SpecAudit == InitAudit /\ [][NextAudit]_vars

(* ------------------------------ reporting ------------------------------ *)

\* the thresholds of detectAnomalies and the limit of getTopActions
BlockedThreshold == 10

FailureThreshold == 5

TopLimit == 10

\* the longest window asked for; the clock of the reporting specification
\* counts hours
MaxHoursBack == 2

\* at most this many reporting operations are run
MaxReads == 1

\* new Date(Date.now() - hoursBack * 60 * 60 * 1000)
cutoffTime(t, hoursBack) == t - hoursBack

Count(seq, Test(_)) == Len(SelectSeq(seq, Test))

\* the values of a set of numbers, largest first
RECURSIVE Descending(_)
Descending(S) ==
    IF S = {} THEN <<>>
    ELSE LET m == CHOOSE x \in S : \A y \in S : y <= x
         IN  <<m>> \o Descending(S \ {m})

RECURSIVE Flatten(_)
Flatten(seqs) == IF seqs = <<>> THEN <<>> ELSE Head(seqs) \o Flatten(Tail(seqs))

\* Array.prototype.sort with (a, b) => key(b) - key(a): descending and stable
SortDescending(seq, Key(_)) ==
    LET keys == Descending({Key(seq[n]) : n \in 1..Len(seq)})
    IN  Flatten([k \in 1..Len(keys) |->
                    SelectSeq(seq, LAMBDA e : Key(e) = keys[k])])

Timestamp(e) == e.timestamp

\* readRecentLogs / readRecentApprovals over the lines of a log at time t: the
\* entries at or after the cutoff, newest first; a read that fails is caught,
\* logged on the console and yields no entries
readRecentLogs(log, t, hoursBack, ok) ==
    IF ~ok THEN <<>>
    ELSE SortDescending(
            SelectSeq(log, LAMBDA e : e.timestamp >= cutoffTime(t, hoursBack)),
            Timestamp)

\* `${log.toolName}.${log.action}`
KeyOf(e) == e.toolName \o "." \o e.action

\* the keys of a Map filled in this order: each value once, first seen first
RECURSIVE Distinct(_)
Distinct(seq) ==
    IF seq = <<>> THEN <<>>
    ELSE <<Head(seq)>> \o Distinct(SelectSeq(Tail(seq), LAMBDA x : x # Head(seq)))

CountOf(x) == x.count

\* Array.prototype.slice(0, limit)
Slice(seq, limit) == SubSeq(seq, 1, IF Len(seq) < limit THEN Len(seq) ELSE limit)

\* getTopActions without the final slice
getTopActionsUncut(logs, limit) ==
    LET keys == Distinct([n \in 1..Len(logs) |-> KeyOf(logs[n])])
        actionCounts ==
            [k \in 1..Len(keys) |->
                [action |-> keys[k],
                 count  |-> Count(logs, LAMBDA e : KeyOf(e) = keys[k])]]
    IN  SortDescending(actionCounts, CountOf)

\* getTopActions: count per toolName.action, most frequent first, cut
getTopActions(logs, limit) ==
    LET keys == Distinct([n \in 1..Len(logs) |-> KeyOf(logs[n])])
        actionCounts ==
            [k \in 1..Len(keys) |->
                [action |-> keys[k],
                 count  |-> Count(logs, LAMBDA e : KeyOf(e) = keys[k])]]
    IN  Slice(SortDescending(actionCounts, CountOf), limit)

\* the summary getSecuritySummary builds from the entries it has read
getSecuritySummary(logs) ==
    [totalInvocations |-> Len(logs),
     blocked          |-> Count(logs, LAMBDA l : l.result = "blocked"),
     failures         |-> Count(logs, LAMBDA l : l.result = "failure"),
     highRiskActions  |-> Count(logs, LAMBDA l : l.riskLevel \in {"high", "critical"}),
     topActions       |-> getTopActions(logs, TopLimit)]

\* a finding of detectAnomalies: the fixed text of its template and the
\* numbers interpolated into it
Finding(text, count, hoursBack) ==
    [text |-> text, count |-> count, hoursBack |-> hoursBack]

\* detectAnomalies with thresholds that are reached rather than exceeded
detectAnomaliesInclusive(logs, hoursBack) ==
    LET blockedCount    == Count(logs, LAMBDA l : l.result = "blocked")
        failureCount    == Count(logs, LAMBDA l : l.result = "failure")
        criticalCount   == Count(logs, LAMBDA l : l.riskLevel = "critical")
        prodAccess      == Count(logs, LAMBDA l : l.environment = "production")
    IN  (IF blockedCount >= BlockedThreshold
         THEN <<Finding("High number of blocked actions", blockedCount, hoursBack)>>
         ELSE <<>>)
        \o (IF failureCount >= FailureThreshold
            THEN <<Finding("Unusual failure rate", failureCount, hoursBack)>>
            ELSE <<>>)
        \o (IF criticalCount > 0
            THEN <<Finding("Critical risk actions detected", criticalCount, NoNumber)>>
            ELSE <<>>)
        \o (IF prodAccess > 0
            THEN <<Finding("Production environment access detected", prodAccess, NoNumber)>>
            ELSE <<>>)

\* the findings detectAnomalies builds from the entries it has read
detectAnomalies(logs, hoursBack) ==
    LET blockedCount    == Count(logs, LAMBDA l : l.result = "blocked")
        failureCount    == Count(logs, LAMBDA l : l.result = "failure")
        criticalCount    == Count(logs, LAMBDA l : l.riskLevel = "critical")
        prodAccess      == Count(logs, LAMBDA l : l.environment = "production")
    IN  (IF blockedCount > BlockedThreshold
         THEN <<Finding("High number of blocked actions", blockedCount, hoursBack)>>
         ELSE <<>>)
        \o (IF failureCount > FailureThreshold
            THEN <<Finding("Unusual failure rate", failureCount, hoursBack)>>
            ELSE <<>>)
        \o (IF criticalCount > 0
            THEN <<Finding("Critical risk actions detected", criticalCount, NoNumber)>>
            ELSE <<>>)
        \o (IF prodAccess > 0
            THEN <<Finding("Production environment access detected", prodAccess, NoNumber)>>
            ELSE <<>>)

\* the statistics getApprovalStats builds from the snapshots it has read
getApprovalStats(logs) ==
    [total       |-> Len(logs),
     approved    |-> Count(logs, LAMBDA l : l.status = "approved"),
     rejected    |-> Count(logs, LAMBDA l : l.status = "rejected"),
     expired     |-> Count(logs, LAMBDA l : l.status = "expired"),
     pending     |-> Cardinality(pendingRequests),
     byRiskLevel |-> [low      |-> Count(logs, LAMBDA l : l.riskLevel = "low"),
                      medium   |-> Count(logs, LAMBDA l : l.riskLevel = "medium"),
                      high     |-> Count(logs, LAMBDA l : l.riskLevel = "high"),
                      critical |-> Count(logs, LAMBDA l : l.riskLevel = "critical")],
     byAction    |-> getTopActions(logs, TopLimit)]

\* the window generateDailyReport asks for
ReportHours == 24

\* a reporting operation that has read its log: seen is the number of lines
\* the log had when it was read
NewRead(op, hoursBack, t, seen, ok, result) ==
    [op |-> op, hoursBack |-> hoursBack, t |-> t, seen |-> seen, ok |-> ok,
     pc |-> "returned", result |-> result]

\* AuditLogger.getSecuritySummary(hoursBack); ok tells whether the log
\* directory could be read
GetSecuritySummary(hoursBack, ok) ==
    /\ Len(reads) < MaxReads
    /\ reads' = Append(reads,
            NewRead("getSecuritySummary", hoursBack, now, Len(auditLog), ok,
                    getSecuritySummary(readRecentLogs(auditLog, now, hoursBack, ok))))
    /\ UNCHANGED <<capabilities, config, now, auditLog, console, approvalLog,
                   requests, pendingRequests, calls, ops, floating, lost>>

\* AuditLogger.detectAnomalies(hoursBack)
DetectAnomalies(hoursBack, ok) ==
    /\ Len(reads) < MaxReads
    /\ reads' = Append(reads,
            NewRead("detectAnomalies", hoursBack, now, Len(auditLog), ok,
                    detectAnomalies(readRecentLogs(auditLog, now, hoursBack, ok),
                                    hoursBack)))
    /\ UNCHANGED <<capabilities, config, now, auditLog, console, approvalLog,
                   requests, pendingRequests, calls, ops, floating, lost>>

\* AuditLogger.generateDailyReport() up to the return of its
\* getSecuritySummary(24)
GenerateDailyReport(ok) ==
    /\ Len(reads) < MaxReads
    /\ reads' = Append(reads,
            [NewRead("generateDailyReport", ReportHours, now, Len(auditLog), ok,
                     [summary   |-> getSecuritySummary(
                                        readRecentLogs(auditLog, now, ReportHours, ok)),
                      anomalies |-> <<>>])
                EXCEPT !.pc = "detectAnomalies"])
    /\ UNCHANGED <<capabilities, config, now, auditLog, console, approvalLog,
                   requests, pendingRequests, calls, ops, floating, lost>>

\* generateDailyReport from its detectAnomalies(24) on: the report goes to
\* daily-report-<date>.txt, a file no operation reads
ReportCompletes(k, ok) ==
    /\ reads[k].pc = "detectAnomalies"
    /\ reads' = [reads EXCEPT
            ![k].pc = "returned",
            ![k].t = now,
            ![k].seen = Len(auditLog),
            ![k].ok = reads[k].ok /\ ok,
            ![k].result.anomalies =
                detectAnomalies(readRecentLogs(auditLog, now, ReportHours, ok),
                                ReportHours)]
    /\ UNCHANGED <<capabilities, config, now, auditLog, console, approvalLog,
                   requests, pendingRequests, calls, ops, floating, lost>>

\* ApprovalHandler.getApprovalStats(hoursBack)
GetApprovalStats(hoursBack, ok) ==
    /\ Len(reads) < MaxReads
    /\ reads' = Append(reads,
            NewRead("getApprovalStats", hoursBack, now, Len(approvalLog), ok,
                    getApprovalStats(readRecentLogs(approvalLog, now, hoursBack, ok))))
    /\ UNCHANGED <<capabilities, config, now, auditLog, console, approvalLog,
                   requests, pendingRequests, calls, ops, floating, lost>>

(* ------------- specification of the reporting operations --------------- *)

\* the time at which the reporting specification starts
ReportTime == MaxHoursBack

\* the actions of the entries that fill the top-actions table
ActionNames ==
    <<"listIssues", "getFile", "searchCode", "listPulls", "getPull", "listBranches",
      "getBranch", "listCommits", "getCommit", "listTags", "getTag">>

Repeat(e, n) == [k \in 1..n |-> e]

\* an entry written by an earlier logInvocation
Seed(t, action, environment, riskLevel, result) ==
    AuditEntry(t, action, environment, riskLevel, result, Undefined, NoNumber)

\* an audit log as earlier invocations have left it: nb blocked entries, one
\* hour old or as old as the longest window, then nf failures, a critical
\* entry, an entry from production and d entries of d different actions,
\* all one hour old
SeededLog(nb, stale, nf, crit, prod, d) ==
    Repeat(Seed(IF stale THEN ReportTime - MaxHoursBack ELSE ReportTime - 1,
                "readRepo", "development", "low", "blocked"), nb)
    \o Repeat(Seed(ReportTime - 1, "createIssue", "development", "high", "failure"), nf)
    \o (IF crit THEN <<Seed(ReportTime - 1, "deleteRepo", "development",
                             "critical", "blocked")>>
        ELSE <<>>)
    \o (IF prod THEN <<Seed(ReportTime - 1, "readRepo", "production", "low",
                             "success")>>
        ELSE <<>>)
    \o [k \in 1..d |-> Seed(ReportTime - 1, ActionNames[k], "development", "low",
                             "success")]

\* the seeded logs: counts at, just above and far below each threshold
SeededLogs ==
    {SeededLog(nb, stale, nf, crit, prod, d) :
        nb \in {0, BlockedThreshold, BlockedThreshold + 1},
        stale \in BOOLEAN,
        nf \in {0, FailureThreshold, FailureThreshold + 1},
        crit \in BOOLEAN,
        prod \in BOOLEAN,
        d \in {0, TopLimit, TopLimit + 1}}

\* the approval logs reports start from: empty, or one earlier decision
SeededApprovalLogs ==
    {<<>>,
     <<NewRequest(0, ReportTime - 1, "development", "createIssue", "high",
                  "approved", "admin@example.com", ReportTime - 1)>>}

InitReports ==
    /\ capabilities = DocumentedCapabilities
    /\ config = DefaultConfig
    /\ now = ReportTime
    /\ auditLog \in SeededLogs
    /\ console = <<>>
    /\ reads = <<>>
    /\ approvalLog \in SeededApprovalLogs
    /\ requests = <<>>
    /\ pendingRequests = {}
    /\ calls = <<>>
    /\ ops = <<>>
    /\ floating = <<>>
    /\ lost = {}

NextReports ==
    \/ \E a \in Actions, e \in Environments : WithAudit(a, e)
    \/ \E i \in 1..Len(calls) : ExecutorReturnsAudit(i)
    \/ \E i \in 1..Len(calls), error \in Thrown : ExecutorThrowsAudit(i, error)
    \/ \E i \in 1..Len(calls), ok \in BOOLEAN : AuditAppendSettles(i, ok)
    \/ \E h \in 1..MaxHoursBack, ok \in BOOLEAN : GetSecuritySummary(h, ok)
    \/ \E h \in 1..MaxHoursBack, ok \in BOOLEAN : DetectAnomalies(h, ok)
    \/ \E ok \in BOOLEAN : GenerateDailyReport(ok)
    \/ \E k \in 1..Len(reads), ok \in BOOLEAN : ReportCompletes(k, ok)
    \/ \E h \in 1..MaxHoursBack, ok \in BOOLEAN : GetApprovalStats(h, ok)

SpecReports == InitReports /\ [][NextReports]_vars

(* ---------------- specification of the risk classifier ----------------- *)

\* the action names given to withAudit: those of the test suite, one per
\* keyword tier in other spellings, and names matching several tiers
RiskActions ==
    {"deleteRepo", "createIssue", "updateFile", "searchCode", "readRepo",
     "pushCode", "uploadFile", "DropTable", "publishUpdate",
     "grant_admin_and_update"}

\* a rule set that restricts nothing: no lists, every environment
NoRestrictions ==
    [allowedActions      |-> {},
     blockedActions      |-> {},
     requireApproval     |-> {},
     allowedEnvironments |-> Environments]

InitRisk ==
    /\ capabilities \in {DocumentedCapabilities, NoRestrictions}
    /\ config = DefaultConfig
    /\ now = 0
    /\ auditLog = <<>>
    /\ console = <<>>
    /\ reads = <<>>
    /\ approvalLog = <<>>
    /\ requests = <<>>
    /\ pendingRequests = {}
    /\ calls = <<>>
    /\ ops = <<>>
    /\ floating = <<>>
    /\ lost = {}

NextRisk ==
    \/ \E a \in RiskActions, e \in Environments : WithAudit(a, e)
    \/ \E i \in 1..Len(calls) : ExecutorReturnsAudit(i)
    \/ \E i \in 1..Len(calls), error \in Thrown : ExecutorThrowsAudit(i, error)
    \/ \E i \in 1..Len(calls), ok \in BOOLEAN : AuditAppendSettles(i, ok)
    \/ Tick

SpecRisk == InitRisk /\ [][NextRisk]_vars

(* =============================== claims ================================ *)

\* every append issued so far has reached its file
StorageReliable == lost = {}

\* the 'blocked' record withAudit writes for invocation c
BlockedRecord(c, reason) ==
    AuditEntry(c.startTime, c.action, c.environment, assessRiskLevel(c.action),
               "blocked", reason, NoNumber)

(* C1: fail-closed gating in withAudit.  Whenever validateAction denies the  *)
(* action of an invocation, the executor is never invoked and the call       *)
(* never returns normally; once the call has failed, exactly one record,     *)
(* with result 'blocked' and the denial reason, is in the audit log for it   *)
(* and the error is 'Action blocked: <reason>' (an append that itself fails  *)
(* surfaces its own error instead and leaves no record).                     *)
C1_FailClosed ==
    \A i \in 1..Len(calls) :
        LET c == calls[i]
            v == validateAction(capabilities, c.action, c.environment)
        IN  ~v.allowed =>
              /\ c.executorRuns = 0
              /\ c.pc \in {"appendBlocked", "thrown"}
              /\ c.pc = "appendBlocked" => c.records = <<>>
              /\ c.pc = "thrown" =>
                    \/ /\ c.error = "Action blocked: " \o v.reason
                       /\ c.records = <<BlockedRecord(c, v.reason)>>
                       /\ \E n \in 1..Len(auditLog) :
                             auditLog[n] = BlockedRecord(c, v.reason)
                    \/ /\ c.error = IOError
                       /\ c.records = <<>>
                       /\ ~StorageReliable

\* a denied invocation has failed with its 'blocked' record written
C1_Witness ==
    \E i \in 1..Len(calls) :
        /\ ~validateAction(capabilities, calls[i].action, calls[i].environment).allowed
        /\ calls[i].pc = "thrown"
        /\ calls[i].error = "Action blocked: " \o ReasonEnvironment(calls[i].environment)
        /\ Len(auditLog) = 1
        /\ auditLog[1].result = "blocked"

\* the invocations whose validateAction verdict is on record
Validated == {i \in 1..Len(calls) : calls[i].validation # NoValidation}

(* C2: an action on the block list is denied in every environment with the  *)
(* reason "Action '<a>' is blocked by capability firewall", whatever the     *)
(* allow list, the approval list and the environment list hold.              *)
C2_BlockedAlwaysDenied ==
    \A i \in Validated :
        calls[i].action \in capabilities.blockedActions =>
            /\ ~calls[i].validation.allowed
            /\ calls[i].validation.reason = ReasonBlocked(calls[i].action)

\* a blocked action that every other rule would have met too
C2_Witness ==
    \E i \in Validated :
        /\ calls[i].action \in capabilities.blockedActions
        /\ calls[i].action \in capabilities.allowedActions
        /\ calls[i].action \in capabilities.requireApproval
        /\ calls[i].environment \notin capabilities.allowedEnvironments
        /\ calls[i].validation.reason = ReasonBlocked(calls[i].action)

(* C3: the verdict of validateAction is that of the first rule that matches  *)
(* in the order blocked, environment, requires-approval, allow-list, allow.  *)
C3_FirstMatchWins ==
    \A i \in Validated :
        LET a       == calls[i].action
            e       == calls[i].environment
            v       == calls[i].validation
            blocked == a \in capabilities.blockedActions
            envOk   == e \in capabilities.allowedEnvironments
            gated   == a \in capabilities.requireApproval
            listed  == capabilities.allowedActions = {}
                          \/ a \in capabilities.allowedActions
        IN  /\ blocked => v = Denied(ReasonBlocked(a))
            /\ (~blocked /\ ~envOk) => v = Denied(ReasonEnvironment(e))
            /\ (~blocked /\ envOk /\ gated) => v = Denied(ReasonApproval(a))
            /\ (~blocked /\ envOk /\ ~gated /\ ~listed) => v = Denied(ReasonNotAllowed(a))
            /\ (~blocked /\ envOk /\ ~gated /\ listed) => v = Allowed

\* an approval-gated action off a non-empty allow list, in an allowed
\* environment: the approval rule decides
C3_Witness ==
    \E i \in Validated :
        /\ calls[i].action \notin capabilities.blockedActions
        /\ calls[i].environment \in capabilities.allowedEnvironments
        /\ calls[i].action \in capabilities.requireApproval
        /\ capabilities.allowedActions # {}
        /\ calls[i].action \notin capabilities.allowedActions
        /\ calls[i].validation = Denied(ReasonApproval(calls[i].action))

(* C4: default deny: validateAction allows an action only when it is listed  *)
(* in allowedActions.                                                        *)
C4_DefaultDeny ==
    \A i \in Validated :
        calls[i].validation.allowed =>
            calls[i].action \in capabilities.allowedActions

C6_ApprovedGetsExecuted ==
    \A i \in 1..Len(calls) :
        LET c == calls[i]
        IN  ( /\ c.kind = "governed"
              /\ c.action \in capabilities.requireApproval
              /\ c.environment \in capabilities.allowedEnvironments
              /\ c.approval.approved
              /\ c.pc \in Finished
              /\ StorageReliable )
            => /\ c.executorRuns = 1
               /\ \E n \in 1..Len(c.records) :
                     /\ c.records[n].result \in {"success", "failure"}
                     /\ c.records[n].duration # NoNumber

Refusals ==
    {ResultInvalidInterface, ResultTimedOut, ResultRejectedByUser, ResultNotAllowed}

(* C7: withApproval invokes its executor at most once and only after         *)
(* requestApproval has returned approved=true; when requestApproval returns  *)
(* a refusal (explicit no, timeout, approver off the allow list, invalid     *)
(* interface) the call has thrown 'Action rejected: <reason>' and neither    *)
(* the executor nor the action behind it has run.                            *)
C7_ExecutorOnlyAfterApproval ==
    \A i \in 1..Len(calls) :
        LET c == calls[i]
        IN  c.kind \in ApprovalKinds =>
              /\ c.wrappedRuns <= 1
              /\ c.wrappedRuns > 0 => c.approval.approved
              /\ c.executorRuns > 0 => c.wrappedRuns > 0
              /\ (c.result \in Refusals /\ c.pc \in Finished /\ c.error # IOError)
                    => c.approval = c.result
              /\ c.approval \in Refusals =>
                    /\ c.pc = "thrown"
                    /\ c.error = "Action rejected: " \o c.approval.reason
                    /\ c.wrappedRuns = 0
                    /\ c.executorRuns = 0

\* an answer 'yes' by somebody off the allow list has ended in the rejection
C7_Witness ==
    \E i \in 1..Len(calls) :
        /\ calls[i].approval = ResultNotAllowed
        /\ calls[i].pc = "thrown"
        /\ calls[i].error = "Action rejected: User not in allowed approvers list"

Terminal == {"approved", "rejected", "expired"}

(* C8: once the status of an approval request is approved, rejected or       *)
(* expired, no step of any operation changes it.                             *)
C8_TerminalIsFinal ==
    [][\A id \in 1..Len(requests) :
          requests[id].status \in Terminal
              => requests'[id].status = requests[id].status]_vars

(* C9: a call of requestApproval is not left waiting at the prompt after     *)
(* its request's expiresAt (plus the lateness of a timer callback).          *)
C9_DecisionByTimeout ==
    \A i \in 1..Len(calls) :
        calls[i].pc \in {"question1", "question2"}
            => now <= requests[calls[i].request].expiresAt + MaxTimerLag

(* C10: timeout rejection.  A prompt nobody answers is ended by the timer    *)
(* when the timeout has elapsed (no earlier than expiresAt, no later than a  *)
(* timer callback's lateness), with approved=false and the reason 'Approval  *)
(* request timed out'; when requestApproval has returned that decision, the  *)
(* rejected snapshot is in the approval log and the request is out of the    *)
(* pending set (an append that fails surfaces its own error instead).        *)
C10_TimeoutRejects ==
    \A i \in 1..Len(calls) :
        LET c  == calls[i]
            id == c.request
        IN  /\ c.pc = "question1" =>
                  /\ c.timer = requests[id].expiresAt
                  /\ now <= c.timer + MaxTimerLag
            /\ c.result = ResultTimedOut =>
                  /\ now >= requests[id].expiresAt
                  /\ c.pc \in {"appendDecision", "thrown"}
                  /\ c.pc = "thrown" =>
                        \/ /\ c.approval = ResultTimedOut
                           /\ c.error = "Action rejected: Approval request timed out"
                           /\ id \notin pendingRequests
                           /\ \E n \in 1..Len(approvalLog) :
                                 /\ approvalLog[n].id = id
                                 /\ approvalLog[n].status = "rejected"
                                 /\ approvalLog[n].approver = Undefined
                                 /\ approvalLog[n].approvalTimestamp >= requests[id].expiresAt
                        \/ /\ c.error = IOError
                           /\ c.approval = NoApproval
                           /\ ~StorageReliable

\* an unanswered prompt has timed out and its rejection is logged
C10_Witness ==
    \E i \in 1..Len(calls) :
        /\ calls[i].approval = ResultTimedOut
        /\ calls[i].error = "Action rejected: Approval request timed out"
        /\ calls[i].request \notin pendingRequests
        /\ ops = <<>>
        /\ Len(approvalLog) = 1
        /\ approvalLog[1].status = "rejected"

(* C11: approver allow list.  With a non-empty allowedApprovers, no request  *)
(* has status approved with an approver off the list (the sentinel of        *)
(* auto-approval aside), whether the prompt or approve() resolved it.        *)
C11_AllowListEnforced ==
    config.allowedApprovers # {} =>
        \A id \in 1..Len(requests) :
            requests[id].status = "approved" =>
                requests[id].approver \in config.allowedApprovers \cup {"auto-approved"}

\* the lines of the approval log that carry request id
LinesOf(id) == {n \in 1..Len(approvalLog) : approvalLog[n].id = id}

\* the invocations that requestApproval auto-approves
AutoApproved(c) ==
    /\ c.kind \in ApprovalKinds
    /\ config.enabled
    /\ c.environment \in config.autoApproveEnvironments

(* C12: auto-approval short-circuit.  With the workflow enabled and the      *)
(* environment in autoApproveEnvironments, requestApproval never reaches the *)
(* prompt and never puts a request into the pending set; it returns          *)
(* approved=true with approver 'auto-approved' and the reason 'Auto-approved *)
(* for environment' once exactly one line, with status approved, is in the   *)
(* approval log (an append that fails surfaces its own error instead and     *)
(* leaves no line).                                                          *)
C12_AutoApproval ==
    \A i \in 1..Len(calls) :
        LET c  == calls[i]
            id == c.request
        IN  AutoApproved(c) =>
              /\ c.pc \in {"appendAuto", "executing", "returned", "thrown"}
              /\ c.result = NoApproval
              /\ id \notin pendingRequests
              /\ c.pc = "appendAuto" => LinesOf(id) = {}
              /\ c.pc # "appendAuto" =>
                    \/ /\ c.approval = ResultAuto
                       /\ c.wrappedRuns = 1
                       /\ Cardinality(LinesOf(id)) = 1
                       /\ \A n \in LinesOf(id) :
                             /\ approvalLog[n].status = "approved"
                             /\ approvalLog[n].approver = "auto-approved"
                    \/ /\ c.pc = "thrown"
                       /\ c.error = IOError
                       /\ c.approval = NoApproval
                       /\ c.wrappedRuns = 0
                       /\ LinesOf(id) = {}
                       /\ ~StorageReliable

\* an auto-approved invocation has run its executor to the end
C12_Witness ==
    \E i \in 1..Len(calls) :
        /\ AutoApproved(calls[i])
        /\ calls[i].approval = ResultAuto
        /\ calls[i].pc = "returned"
        /\ Cardinality(LinesOf(calls[i].request)) = 1
        /\ pendingRequests = {}

(* C13: disabled workflow.  With enabled false, requestApproval returns      *)
(* approved=true with the reason 'Approval handler disabled' in every        *)
(* environment (auto-approved ones included) and for every risk level, the   *)
(* executor is invoked, and no request is created, nothing enters the        *)
(* pending set and nothing is appended to the approval log.                  *)
C13_Disabled ==
    ~config.enabled =>
        /\ requests = <<>>
        /\ pendingRequests = {}
        /\ approvalLog = <<>>
        /\ floating = <<>>
        /\ StorageReliable
        /\ \A i \in 1..Len(calls) :
              calls[i].kind \in ApprovalKinds =>
                  /\ calls[i].approval.approved
                  /\ calls[i].approval.reason = "Approval handler disabled"
                  /\ calls[i].approval.approver = Undefined
                  /\ calls[i].request = 0
                  /\ calls[i].wrappedRuns = 1
                  /\ calls[i].pc \in {"executing", "returned", "thrown"}
                  /\ calls[i].pc = "thrown" => calls[i].error \in Thrown

\* a disabled handler has let through a call in an environment that it is
\* also configured to auto-approve, and manual resolution found nothing
C13_Witness ==
    \E i \in 1..Len(calls) :
        /\ ~config.enabled
        /\ calls[i].environment \in config.autoApproveEnvironments
        /\ calls[i].approval.reason = "Approval handler disabled"
        /\ calls[i].pc = "returned"
        /\ ops # <<>>

(* C14: whenever getPendingRequests is called, every request it returns has  *)
(* status pending and an expiresAt that has not passed, also while another   *)
(* operation on the same request is in flight.                               *)
C14_ReturnsOnlyPending ==
    \A r \in getPendingRequests(now) :
        /\ r.status = "pending"
        /\ ~Expired(r, now)

\* the approve / reject invocation begun by the current step, if any
Begun(k) == k = Len(ops) + 1 /\ Len(ops') = k

(* C15: approve on a pending request whose expiresAt has passed sets its     *)
(* status to expired, not approved, appends that snapshot to the approval    *)
(* log, removes the request from the pending set and returns false (an       *)
(* append that fails surfaces its error instead and removes nothing);        *)
(* approve or reject on an id that is not in the pending set returns false   *)
(* at once and changes neither the pending set, nor the log, nor a request.  *)
C15_ApproveExpiredOrUnknown ==
    /\ [](\A k \in 1..Len(ops) :
            LET o == ops[k]
            IN  /\ o.path = "unknown" => (o.pc = "returned" /\ ~o.result)
                /\ o.path = "expired" =>
                      /\ o.kind = "approve"
                      /\ o.pc \in {"appendExpired", "returned", "thrown"}
                      /\ o.pc = "appendExpired" =>
                            (o.line.id = o.request /\ o.line.status = "expired")
                      /\ o.pc = "returned" =>
                            /\ ~o.result
                            /\ o.request \notin pendingRequests
                            /\ \E n \in LinesOf(o.request) :
                                  approvalLog[n].status = "expired"
                      /\ o.pc = "thrown" =>
                            \E l \in lost : l.by = "op" /\ l.n = k)
    /\ [][\A k \in 1..(Len(ops) + 1) :
            Begun(k) =>
               LET o  == ops'[k]
                   id == o.request
               IN  IF id \notin pendingRequests
                   THEN /\ o.path = "unknown"
                        /\ pendingRequests' = pendingRequests
                        /\ approvalLog' = approvalLog
                        /\ floating' = floating
                        /\ requests' = requests
                   ELSE (o.kind = "approve" /\ Expired(requests[id], now)) =>
                            /\ o.path = "expired"
                            /\ requests'[id].status = "expired"
                            /\ requests'[id].approver = requests[id].approver]_vars

\* approve came after the expiry: it has logged 'expired' and returned false
C15_Witness ==
    \E k \in 1..Len(ops) :
        /\ ops[k].path = "expired"
        /\ ops[k].pc = "returned"
        /\ ~ops[k].result
        /\ ops[k].request \notin pendingRequests
        /\ \E n \in LinesOf(ops[k].request) : approvalLog[n].status = "expired"

(* C16: a request that is still pending after its expiresAt has passed is    *)
(* resolved to expired by whichever operation touches it next: no step       *)
(* takes it to approved or rejected.                                         *)
C16_ExpiredNeverResolved ==
    [][\A id \in 1..Len(requests) :
          ( /\ id \in pendingRequests
            /\ requests[id].status = "pending"
            /\ Expired(requests[id], now) )
          => requests'[id].status \in {"pending", "expired"}]_vars

\* the requests that have been in the pending set: all but the auto-approved
EverPending(id) == requests[id].approver # "auto-approved"

(* C17: log before removal: a request that has left the pending set has a    *)
(* line with its terminal status in the approval log.                        *)
C17_LogBeforeRemoval ==
    \A id \in 1..Len(requests) :
        (EverPending(id) /\ id \notin pendingRequests)
            => \E n \in LinesOf(id) : approvalLog[n].status \in Terminal

\* what withAudit owes an invocation whose executor threw, given the reason
\* its 'failure' record is to carry
FailureHandled(c, reason) ==
    /\ c.validation.allowed
    /\ c.executorRuns = 1
    /\ c.pc \in {"appendFailure", "thrown"}
    /\ c.pc = "appendFailure" => c.records = <<>>
    /\ c.pc = "thrown" =>
          \/ /\ c.error = c.thrown
             /\ Len(c.records) = 1
             /\ c.records[1].result = "failure"
             /\ c.records[1].reason = reason
             /\ c.records[1].duration = c.records[1].timestamp - c.startTime
             /\ c.records[1].duration >= 0
             /\ \E n \in 1..Len(auditLog) : auditLog[n] = c.records[1]
          \/ /\ c.error = IOError
             /\ c.records = <<>>
             /\ ~StorageReliable

(* C18, as stated: when the action is allowed and the executor throws,       *)
(* withAudit appends one record with result 'failure', the duration and, as  *)
(* reason, the message of what was thrown (for a thrown string, the string), *)
(* and then re-raises what the executor threw unchanged.                     *)
C18_FailureRecorded ==
    \A i \in 1..Len(calls) :
        (calls[i].kind \in AuditKinds /\ calls[i].outcome = "threw")
            => FailureHandled(calls[i], calls[i].thrown)

(* C18, amended: as above, with the reason being the error's message when    *)
(* the executor threw an Error and 'Unknown error' when it threw anything    *)
(* else (an append that fails surfaces its own error instead and leaves no   *)
(* record).                                                                  *)
C18_FailureRecordedAsError ==
    \A i \in 1..Len(calls) :
        (calls[i].kind \in AuditKinds /\ calls[i].outcome = "threw")
            => FailureHandled(calls[i],
                              IF instanceofError(calls[i].thrown)
                              THEN calls[i].thrown ELSE "Unknown error")

\* an executor that rejected with a string some time after the call began
\* has been recorded as 'Unknown error' and the string re-raised
C18_Witness ==
    \E i \in 1..Len(calls) :
        /\ calls[i].outcome = "threw"
        /\ calls[i].thrown = ExecutorRejection
        /\ calls[i].pc = "thrown"
        /\ calls[i].error = ExecutorRejection
        /\ Len(calls[i].records) = 1
        /\ calls[i].records[1].result = "failure"
        /\ calls[i].records[1].reason = "Unknown error"
        /\ calls[i].records[1].duration > 0

\* the result the record of a completed withAudit invocation is to carry
ExpectedResult(c) ==
    IF ~c.validation.allowed THEN "blocked"
    ELSE IF c.outcome = "returned" THEN "success"
    ELSE "failure"

(* C19: one record per invocation attempt.  A withAudit call that has        *)
(* completed ran its executor at most once and has appended exactly one      *)
(* record, with result 'blocked' if the firewall denied, 'success' if the    *)
(* executor returned and 'failure' if it threw (or it has appended none and  *)
(* has failed with the error of the append).                                 *)
C19_OneRecordPerAttempt ==
    \A i \in 1..Len(calls) :
        LET c == calls[i]
        IN  (c.kind \in AuditKinds /\ c.validation # NoValidation) =>
              /\ c.executorRuns <= 1
              /\ c.pc \in Finished =>
                    \/ /\ Len(c.records) = 1
                       /\ c.records[1].result = ExpectedResult(c)
                    \/ /\ c.records = <<>>
                       /\ c.pc = "thrown"
                       /\ c.error = IOError

\* the operation that issued a lost line has surfaced the failure, or is on
\* its way to (withAudit in its catch block)
Surfaced(l) ==
    CASE l.by = "call" ->
            \/ calls[l.n].pc = "appendFailure"
            \/ calls[l.n].pc = "thrown" /\ calls[l.n].error = IOError
      [] l.by = "op" -> ops[l.n].pc = "thrown"
      [] OTHER -> FALSE

(* C20: a write failure for the current record propagates: whenever the      *)
(* append of a line has failed, the operation that issued it fails with      *)
(* that error; none completes normally after losing its record.              *)
C20_WriteFailurePropagates == \A l \in lost : Surfaced(l)

(* C21: logInvocation echoes its entry on the console for every call,        *)
(* whether or not the append to the audit file succeeds: an entry whose      *)
(* append has failed is on the console all the same.                         *)
C21_ConsoleEchoRegardless ==
    \A l \in lost :
        l.line.kind = "audit" => \E n \in 1..Len(console) : console[n] = l.line

\* seq is an initial part of longer
IsPrefix(seq, longer) ==
    /\ Len(seq) <= Len(longer)
    /\ \A n \in 1..Len(seq) : longer[n] = seq[n]

(* C22: append-only stores.  Every step leaves the earlier content of the    *)
(* audit log and of the approval log as a prefix of their content after it,  *)
(* and a step of getSecuritySummary, detectAnomalies, generateDailyReport    *)
(* or getApprovalStats leaves both logs as they are.                         *)
C22_AppendOnly ==
    [][ /\ IsPrefix(auditLog, auditLog')
        /\ IsPrefix(approvalLog, approvalLog')
        /\ reads' # reads => (auditLog' = auditLog /\ approvalLog' = approvalLog)
      ]_vars

\* a report was made of a log that has grown by a line since
C22_Witness ==
    \E k \in 1..Len(reads) :
        /\ reads[k].op = "generateDailyReport"
        /\ reads[k].pc = "returned"
        /\ Len(auditLog) > reads[k].seen
        /\ reads[k].seen > 0
        /\ approvalLog # <<>>

\* the records a reporting operation r had in its window: the lines of the
\* audit log it read, timestamped at or after its cutoff
Window(r) ==
    SelectSeq(SubSeq(auditLog, 1, r.seen),
              LAMBDA e : e.timestamp >= r.t - r.hoursBack)

\* the number of findings with the given text among the findings
Mentions(findings, text) ==
    Cardinality({n \in 1..Len(findings) : findings[n].text = text})

(* C23: detectAnomalies(hoursBack) returns, over the records of its window, *)
(* one message about blocked actions iff more than 10 of them are blocked,  *)
(* one about the failure rate iff more than 5 are failures, one about       *)
(* critical risk iff at least one has riskLevel critical, and one about     *)
(* production iff at least one has environment production; no condition     *)
(* contributes two messages, so there are at most four, and exactly 10      *)
(* blocked or exactly 5 failures raise none (a log directory that cannot be *)
(* read is reported on the console and counts as an empty window).          *)
C23_AnomalyThresholds ==
    \A k \in 1..Len(reads) :
        LET r == reads[k]
            w == IF r.ok THEN Window(r) ELSE <<>>
            nBlocked  == Cardinality({n \in 1..Len(w) : w[n].result = "blocked"})
            nFailure  == Cardinality({n \in 1..Len(w) : w[n].result = "failure"})
            nCritical == Cardinality({n \in 1..Len(w) : w[n].riskLevel = "critical"})
            nProd     == Cardinality({n \in 1..Len(w) : w[n].environment = "production"})
        IN  r.op = "detectAnomalies" =>
              /\ Mentions(r.result, "High number of blocked actions")
                    = (IF nBlocked > 10 THEN 1 ELSE 0)
              /\ Mentions(r.result, "Unusual failure rate")
                    = (IF nFailure > 5 THEN 1 ELSE 0)
              /\ Mentions(r.result, "Critical risk actions detected")
                    = (IF nCritical > 0 THEN 1 ELSE 0)
              /\ Mentions(r.result, "Production environment access detected")
                    = (IF nProd > 0 THEN 1 ELSE 0)
              /\ Len(r.result) <= 4
              /\ \A n \in 1..Len(r.result) :
                    r.result[n].text \in
                        {"High number of blocked actions", "Unusual failure rate",
                         "Critical risk actions detected",
                         "Production environment access detected"}

\* a detectAnomalies(1) that found exactly 10 blocked records and more than 5
\* failures in its window: it reports the failures and not the blocked actions
C23_Witness ==
    \E k \in 1..Len(reads) :
        LET r == reads[k]
        IN  /\ r.op = "detectAnomalies"
            /\ r.ok
            /\ r.hoursBack = 1
            /\ Len(SelectSeq(Window(r), LAMBDA e : e.result = "blocked")) = 10
            /\ Len(SelectSeq(Window(r), LAMBDA e : e.result = "failure")) = 6
            /\ Mentions(r.result, "Unusual failure rate") = 1
            /\ Mentions(r.result, "High number of blocked actions") = 0

\* the sum of the counts of a top-actions table
RECURSIVE SumOfCounts(_)
SumOfCounts(table) ==
    IF table = <<>> THEN 0 ELSE Head(table).count + SumOfCounts(Tail(table))

(* C24: getSecuritySummary(hoursBack) counts exactly the records of the     *)
(* audit log with timestamp >= now - hoursBack, those just written through  *)
(* logInvocation included: totalInvocations is their number, blocked and    *)
(* failures the numbers with those results, highRiskActions the number with *)
(* riskLevel high or critical; topActions has one entry per toolName.action *)
(* carrying the number of records of that action, is ordered by descending  *)
(* count, has at most 10 entries, and its counts sum to at most             *)
(* totalInvocations (a log directory that cannot be read is reported on the *)
(* console and counts as an empty window).                                  *)
C24_SummaryCounts ==
    \A k \in 1..Len(reads) :
        LET r == reads[k]
            w == IF r.ok THEN Window(r) ELSE <<>>
            s == r.result
            top == s.topActions
        IN  r.op = "getSecuritySummary" =>
              /\ s.totalInvocations = Len(w)
              /\ r.ok => s.totalInvocations =
                    Cardinality({n \in 1..r.seen :
                                    auditLog[n].timestamp >= r.t - r.hoursBack})
              /\ s.blocked = Cardinality({n \in 1..Len(w) : w[n].result = "blocked"})
              /\ s.failures = Cardinality({n \in 1..Len(w) : w[n].result = "failure"})
              /\ s.highRiskActions =
                    Cardinality({n \in 1..Len(w) : w[n].riskLevel \in {"high", "critical"}})
              /\ Len(top) <= 10
              /\ \A n \in 1..Len(top) :
                    top[n].count =
                        Cardinality({m \in 1..Len(w) :
                            w[m].toolName \o "." \o w[m].action = top[n].action})
              /\ \A n, m \in 1..Len(top) :
                    /\ n < m => top[n].count >= top[m].count
                    /\ n # m => top[n].action # top[m].action
              /\ SumOfCounts(top) <= s.totalInvocations

\* a getSecuritySummary(1) over a log with more than 10 different actions in
\* the window, a record withAudit has just written among them and older
\* records before the cutoff: the table is cut to 10 and sums to less than
\* the total
C24_Witness ==
    \E k \in 1..Len(reads) :
        LET r == reads[k]
        IN  /\ r.op = "getSecuritySummary"
            /\ r.ok
            /\ r.hoursBack = 1
            /\ \E n \in 1..r.seen : auditLog[n].timestamp = r.t
            /\ \E n \in 1..r.seen : auditLog[n].timestamp < r.t - r.hoursBack
            /\ Cardinality({KeyOf(Window(r)[n]) : n \in 1..Len(Window(r))}) > 10
            /\ Len(r.result.topActions) = 10
            /\ SumOfCounts(r.result.topActions) < r.result.totalInvocations
            /\ r.result.totalInvocations < r.seen

\* the lower-cased action contains one of the keywords
ContainsAny(action, keywords) ==
    \E a \in keywords : includes(toLowerCase(Chars(action)), Chars(a))

C26_TestSuiteGrades ==
    \A i \in 1..Len(calls) :
        /\ calls[i].action = "deleteRepo" => calls[i].riskLevel = "critical"
        /\ calls[i].action = "createIssue" => calls[i].riskLevel = "high"
        /\ calls[i].action = "updateFile" => calls[i].riskLevel = "medium"
        /\ calls[i].action = "searchCode" => calls[i].riskLevel = "low"

\* the fields of a request that its resolution leaves alone
Frame(r) ==
    [id |-> r.id, timestamp |-> r.timestamp, user |-> r.user,
     environment |-> r.environment, toolName |-> r.toolName, action |-> r.action,
     riskLevel |-> r.riskLevel, reason |-> r.reason, expiresAt |-> r.expiresAt]

(* C27: resolving an approval request changes only its status, approver and *)
(* approvalTimestamp: on every resolution path (interactive decision,       *)
(* approve, reject with or without a reason, expiry) the id, timestamp,     *)
(* user, environment, toolName, action, riskLevel, reason and expiresAt of  *)
(* every logged snapshot equal those the request was created with.          *)
C27_ResolutionFrame ==
    [][ /\ \A id \in 1..Len(requests) : Frame(requests'[id]) = Frame(requests[id])
        /\ Len(approvalLog') > Len(approvalLog) =>
              LET l == approvalLog'[Len(approvalLog')]
              IN  Frame(l) = Frame(requests[l.id])
      ]_vars

(* C28: single resolution per request.  For any request id, across all      *)
(* approve and reject calls, including calls issued while an earlier        *)
(* approve or reject of the same id is still awaiting its log append, at    *)
(* most one call returns true, and a request is never both approved and     *)
(* rejected.                                                                *)
C28_SingleResolution ==
    \A id \in 1..Len(requests) :
        /\ Cardinality({k \in 1..Len(ops) :
                           ops[k].request = id /\ ops[k].pc = "returned"
                              /\ ops[k].result}) <= 1
        /\ ~ /\ \E k \in 1..Len(ops) :
                   ops[k].request = id /\ ops[k].kind = "approve" /\ ops[k].result
             /\ \E k \in 1..Len(ops) :
                   ops[k].request = id /\ ops[k].kind = "reject" /\ ops[k].result

(* C29: each approval request id has at most one line in the durable        *)
(* approval log, whatever the interleaving of the interactive wait in       *)
(* requestApproval with getPendingRequests, approve and reject on the same  *)
(* id.                                                                      *)
C29_OneLinePerRequest ==
    \A id \in 1..Len(requests) : Cardinality(LinesOf(id)) <= 1

(* C30: withAudit appends a record with result 'failure' only if the        *)
(* executor itself threw: an invocation whose executor returned normally is *)
(* never recorded as a failure, also when the append of its 'success'       *)
(* record fails.                                                            *)
C30_FailureOnlyIfExecutorThrew ==
    \A i \in 1..Len(calls) :
        calls[i].outcome = "returned" =>
            /\ \A n \in 1..Len(calls[i].records) :
                  calls[i].records[n].result # "failure"
            /\ \A n \in 1..Len(auditLog) :
                  auditLog[n].result # "failure"

====
